---- MODULE Spec2Model ----
(***************************************************************************)
(* A model of the NASLib glue code:                                        *)
(*   - naslib/optimizers/evaluator.py : Evaluator.__init__, run, train,    *)
(*     infer, save (the train / validate / test / checkpoint loop);        *)
(*   - examples/mf_plot.py : restructure_results and the loop of plot_sh.  *)
(*                                                                         *)
(* Exceptions are named after the place that raises them:                  *)
(*   "NoConfig"  the raise statements of lines 24, 108 and 163,            *)
(*   "NoEpochs"  the raise statement of line 85,                           *)
(*   "NameError" the unbound name `config` read at line 36,                *)
(*   "KeyError"  a missing key read from a plain dict (mf_plot.py:55),     *)
(*   "ValueError" plt.plot given series of different lengths (line 56).    *)
(* An exception that nothing catches ends the program (pc = "failed").     *)
(***************************************************************************)
EXTENDS Integers, Sequences, FiniteSets, TLC

\* ------------------------------------------------------------- bounds
MaxData   == 2    \* records in the train set and in the test set
MaxBatch  == 2    \* config.batch_size ranges over 1..MaxBatch
MaxEpochs == 2    \* config.epochs ranges over 0..MaxEpochs
MaxCalls  == 2    \* top-level calls made by the caller in one behaviour
MaxLen    == 3    \* records in errors[1]
MaxVal    == 2    \* distinct measurements a record can hold

\* train_portion in quarters (0, 1/4, 1/2, 3/4, 1): exact as floats, so the
\* floor of line 44 is the integer division below.
PortionDen == 4
Portions == 0..PortionDen

\* The configuration objects the code can get hold of, by identity.
CfgGraph  == "graph.config"
CfgKwargs == "kwargs.config"
CfgOther  == "other.config"
Configs == {CfgGraph, CfgKwargs, CfgOther}
Unbound == "unbound"
None == "none"

VARIABLES
  pc,          \* position of the caller / of Evaluator.run
  error,       \* the exception that ended the program, or None
  calls,       \* top-level calls made so far
  ctor,        \* the arguments and the outcome of Evaluator.__init__
  queues,      \* len() of self.train_queue, self.valid_queue, self.test_queue
  runKw,       \* whether the current call of run got an 'epochs' keyword
  epochs,      \* local `epochs` of run
  epoch,       \* loop variable of run
  frame,       \* the running call of train / infer
  resolved,    \* the last configuration resolution of train / infer
  log,         \* phases begun and ended by the current call of run
  files,       \* checkpoint files written by the current call of run
  errors,      \* mf_plot: errors[1], as a sequence of records
  idx,         \* mf_plot: loop variable of restructure_results
  new_errors,  \* mf_plot: the dict under construction
  plain,       \* mf_plot: whether the per-architecture dicts are plain dicts
  todo,        \* mf_plot: architectures plot_sh has not plotted yet
  plotted      \* mf_plot: what plot_sh read for the last architecture

plotVars == <<errors, idx, new_errors, plain, todo, plotted>>
vars == <<pc, error, calls, ctor, queues, runKw, epochs, epoch, frame,
          resolved, log, files, errors, idx, new_errors, plain, todo,
          plotted>>

\* ============================================================ Evaluator

NoCtor == [kw |-> FALSE, graphCfg |-> FALSE, module |-> Unbound,
           selfConfig |-> None, transformCfg |-> None, rootCfg |-> None,
           outcome |-> None]
NoQueues == [train |-> 0, valid |-> 0, test |-> 0]
NoFrame == [fn |-> None, caller |-> None, queue |-> None, len |-> 0,
            step |-> 0]
NoPlot == [arch |-> None, hasX |-> FALSE, hasY |-> FALSE, x |-> <<>>,
           values |-> <<>>]
NoResolve == [fn |-> None, kw |-> FALSE, graphCfg |-> FALSE, result |-> None]

\* kwargs.get('config', graph.config), lines 22 and 161: the default
\* graph.config is evaluated before get is called, so a graph without the
\* attribute raises AttributeError whether or not the keyword is there; the
\* bare except turns it into the raise of line 24 / 163.
KwargsGetConfig(kw, graphCfg) ==
  IF ~graphCfg THEN "NoConfig"
  ELSE IF kw THEN CfgKwargs ELSE CfgGraph

\* config = config if 'config' in kwargs else graph.config, line 106: with
\* the keyword the right-hand side reads the local `config` before it is
\* assigned (UnboundLocalError), which the bare except turns into the raise
\* of line 108.
TrainConfig(kw, graphCfg) ==
  IF kw THEN "NoConfig"
  ELSE IF graphCfg THEN CfgGraph ELSE "NoConfig"

\* len(DataLoader) with drop_last = False: ceil(n / batch_size).
LoaderLen(n, bs) == (n + bs - 1) \div bs

\* split = int(np.floor(self.config.train_portion * num_train)), line 44.
Split(portion, numTrain) == (portion * numTrain) \div PortionDen

\* lines 46-60: the three data loaders.
MakeQueues(numTrain, numTest, portion, bs) ==
  [train |-> LoaderLen(Split(portion, numTrain), bs),
   valid |-> LoaderLen(numTrain - Split(portion, numTrain), bs),
   test  |-> LoaderLen(numTest, bs)]

\* Evaluator.__init__(graph, **kwargs), lines 19-79. `module` is what the
\* module-level name `config` is bound to: lines 36, 39 and 40 read that
\* name, not self.config (it is bound by lines 200-202 when the file runs
\* as a script, and unbound when the module is imported).
EvaluatorInit(kw, graphCfg, module, numTrain, numTest, portion, bs) ==
  /\ pc = "idle"
  /\ calls < MaxCalls
  /\ calls' = calls + 1
  /\ LET c == KwargsGetConfig(kw, graphCfg)
     IN  IF c = "NoConfig"
         THEN /\ ctor' = [NoCtor EXCEPT !.kw = kw, !.graphCfg = graphCfg,
                                        !.module = module,
                                        !.outcome = "NoConfig"]
              /\ pc' = "failed"
              /\ error' = "NoConfig"
              /\ UNCHANGED queues
         ELSE IF module = Unbound
         THEN /\ ctor' = [NoCtor EXCEPT !.kw = kw, !.graphCfg = graphCfg,
                                        !.module = module,
                                        !.selfConfig = c,
                                        !.outcome = "NameError"]
              /\ pc' = "failed"
              /\ error' = "NameError"
              /\ UNCHANGED queues
         ELSE /\ ctor' = [kw |-> kw, graphCfg |-> graphCfg,
                          module |-> module, selfConfig |-> c,
                          transformCfg |-> module, rootCfg |-> module,
                          outcome |-> "ok"]
              /\ queues' = MakeQueues(numTrain, numTest, portion, bs)
              /\ pc' = "ready"
              /\ UNCHANGED error
  /\ UNCHANGED <<runKw, epochs, epoch, frame, resolved, log, files>>
  /\ UNCHANGED plotVars

\* The entry of train (lines 104-113) or infer (lines 159-168): resolve the
\* configuration, then start the loop over the queue or raise.
Enter(fn, caller, queue, len, kw, graphCfg) ==
  LET c == IF fn = "train" THEN TrainConfig(kw, graphCfg)
                           ELSE KwargsGetConfig(kw, graphCfg)
  IN  /\ resolved' = [fn |-> fn, kw |-> kw, graphCfg |-> graphCfg,
                      result |-> c]
      /\ IF c = "NoConfig"
         THEN /\ pc' = "failed"
              /\ error' = "NoConfig"
              /\ UNCHANGED <<frame, log>>
         ELSE /\ pc' = fn
              /\ frame' = [fn |-> fn, caller |-> caller, queue |-> queue,
                           len |-> len, step |-> 0]
              /\ log' = IF caller = "run"
                        THEN Append(log, <<queue, "begin", epoch>>)
                        ELSE log
              /\ UNCHANGED error

\* A caller other than run calls the static method train or infer on a
\* graph of its own.
DirectCall(fn, len, kw, graphCfg) ==
  /\ pc = "idle"
  /\ calls < MaxCalls
  /\ calls' = calls + 1
  /\ Enter(fn, "direct", "direct", len, kw, graphCfg)
  /\ UNCHANGED <<ctor, queues, runKw, epochs, epoch, files>>
  /\ UNCHANGED plotVars

\* run(**kwargs), lines 82-85.
Run(kw) ==
  /\ pc \in {"ready", "done"}
  /\ calls < MaxCalls
  /\ calls' = calls + 1
  /\ runKw' = kw
  /\ log' = <<>>
  /\ files' = <<>>
  /\ IF ~kw
     THEN /\ \E n \in 0..MaxEpochs : epochs' = n   \* self.config.epochs
          /\ epoch' = 0
          /\ pc' = "loop"
          /\ UNCHANGED error
     ELSE /\ pc' = "failed"
          /\ error' = "NoEpochs"
          /\ UNCHANGED <<epochs, epoch>>
  /\ UNCHANGED <<ctor, queues, frame, resolved>>
  /\ UNCHANGED plotVars

\* for epoch in range(epochs), line 87.
InRangeInclusive == epoch <= epochs
InRange == epoch < epochs

\* lines 87-91: the loop head and the call of train on self.model, which is
\* the graph the evaluator was built from (line 65), without keywords.
RunTrain ==
  /\ pc = "loop"
  /\ InRange
  /\ Enter("train", "run", "train", queues.train, FALSE, ctor.graphCfg)
  /\ UNCHANGED <<calls, ctor, queues, runKw, epochs, epoch, files>>
  /\ UNCHANGED plotVars

\* range(epochs) is exhausted: run returns.
RunReturn ==
  /\ pc = "loop"
  /\ ~InRange
  /\ pc' = "done"
  /\ UNCHANGED <<error, calls, ctor, queues, runKw, epochs, epoch, frame,
                 resolved, log, files>>
  /\ UNCHANGED plotVars

\* One batch of the loop of train (lines 114-154) or infer (lines 171-185).
Batch ==
  /\ pc \in {"train", "infer"}
  /\ frame.step < frame.len
  /\ frame' = [frame EXCEPT !.step = @ + 1]
  /\ UNCHANGED <<pc, error, calls, ctor, queues, runKw, epochs, epoch,
                 resolved, log, files>>
  /\ UNCHANGED plotVars

\* Where run continues after a call returns: lines 94, 98 and 101.
After(queue) ==
  CASE queue = "train" -> "after_train"
    [] queue = "valid" -> "after_valid"
    [] queue = "test"  -> "after_test"

\* return top1.avg, objs.avg, lines 156 and 187.
Return ==
  /\ pc \in {"train", "infer"}
  /\ frame.step = frame.len
  /\ IF frame.caller = "run"
     THEN /\ pc' = After(frame.queue)
          /\ log' = Append(log, <<frame.queue, "end", epoch>>)
     ELSE /\ pc' = "idle"
          /\ UNCHANGED log
  /\ frame' = NoFrame
  /\ UNCHANGED <<error, calls, ctor, queues, runKw, epochs, epoch,
                 resolved, files>>
  /\ UNCHANGED plotVars

\* if len(self.valid_queue) != 0, line 94.
HasValidAlways == TRUE
HasValid == queues.valid # 0

\* lines 94-95.
RunValid ==
  /\ pc = "after_train"
  /\ HasValid
  /\ Enter("infer", "run", "valid", queues.valid, FALSE, ctor.graphCfg)
  /\ UNCHANGED <<calls, ctor, queues, runKw, epochs, epoch, files>>
  /\ UNCHANGED plotVars

\* line 98, reached from line 94 (no validation) or from line 96.
RunTest ==
  /\ \/ pc = "after_train" /\ ~HasValid
     \/ pc = "after_valid"
  /\ Enter("infer", "run", "test", queues.test, FALSE, ctor.graphCfg)
  /\ UNCHANGED <<calls, ctor, queues, runKw, epochs, epoch, files>>
  /\ UNCHANGED plotVars

\* 'one_shot_model_{}.pt'.format(epoch), line 192.
SaveName(e) == <<"one_shot_model_", e, ".pt">>

\* Evaluator.save(self.config.save, self.model, epoch), line 101, and the
\* step of the for loop to the next epoch.
RunSave ==
  /\ pc = "after_test"
  /\ files' = Append(files, SaveName(epoch))
  /\ log' = Append(log, <<"save", "end", epoch>>)
  /\ epoch' = epoch + 1
  /\ pc' = "loop"
  /\ UNCHANGED <<error, calls, ctor, queues, runKw, epochs, frame, resolved>>
  /\ UNCHANGED plotVars

PlotIdle ==
  /\ errors = <<>>
  /\ idx = 0
  /\ new_errors = <<>>
  /\ plain = FALSE
  /\ todo = <<>>
  /\ plotted = NoPlot

EvalIdle ==
  /\ error = None
  /\ calls = 0
  /\ ctor = NoCtor
  /\ queues = NoQueues
  /\ runKw = FALSE
  /\ epochs = 0
  /\ epoch = 0
  /\ frame = NoFrame
  /\ resolved = NoResolve
  /\ log = <<>>
  /\ files = <<>>

Init == pc = "idle" /\ EvalIdle /\ PlotIdle

Next ==
  \/ \E kw \in BOOLEAN, graphCfg \in BOOLEAN, module \in Configs \cup {Unbound},
        numTrain \in 1..MaxData, numTest \in 1..MaxData,
        portion \in Portions, bs \in 1..MaxBatch :
        EvaluatorInit(kw, graphCfg, module, numTrain, numTest, portion, bs)
  \/ \E fn \in {"train", "infer"}, len \in 0..MaxData,
        kw \in BOOLEAN, graphCfg \in BOOLEAN :
        DirectCall(fn, len, kw, graphCfg)
  \/ \E kw \in BOOLEAN : Run(kw)
  \/ RunTrain
  \/ RunReturn
  \/ Batch
  \/ Return
  \/ RunValid
  \/ RunTest
  \/ RunSave

Spec == Init /\ [][Next]_vars

\* The interpreter runs a started call to its end.
FairSpec == Spec /\ WF_vars(Next)

\* ============================================================== mf_plot

Archs == {"arch_a", "arch_b"}

\* The six lists restructure_results copies, lines 24-29.
Metrics == {"train_acc", "valid_acc", "fidelity", "test_acc", "runtime",
            "train_time"}

\* errors[1]: seven parallel lists, one entry per evaluation. The entry of
\* list m for an evaluation that measured v is written <<m, v>>.
Columns(a, r) ==
  [m \in Metrics \cup {"arch"} |->
     IF m = "arch" THEN a ELSE [i \in DOMAIN r |-> <<m, r[i]>>]]

\* list.append, lines 24-29.
ListAppendFront(lst, v) == <<v>> \o lst
ListAppend(lst, v) == Append(lst, v)

\* new_errors[a][m].append(v) on a defaultdict of defaultdict(list): a
\* missing key is created with its default on the way.
AppendItem(d, a, m, v) ==
  LET inner == IF a \in DOMAIN d THEN d[a] ELSE <<>>
      lst   == IF m \in DOMAIN inner THEN inner[m] ELSE <<>>
  IN  [k \in DOMAIN d \cup {a} |->
         IF k = a
         THEN [j \in DOMAIN inner \cup {m} |->
                 IF j = m THEN ListAppend(lst, v) ELSE inner[j]]
         ELSE d[k]]

\* The body of the loop, lines 24-29, for index i (0-based as in the code).
AppendRecord(d, e, i) ==
  LET a  == e["arch"][i + 1]
      d1 == AppendItem(d,  a, "train_acc",  e["train_acc"][i + 1])
      d2 == AppendItem(d1, a, "valid_acc",  e["valid_acc"][i + 1])
      d3 == AppendItem(d2, a, "fidelity",   e["fidelity"][i + 1])
      d4 == AppendItem(d3, a, "test_acc",   e["test_acc"][i + 1])
      d5 == AppendItem(d4, a, "runtime",    e["runtime"][i + 1])
  IN  AppendItem(d5, a, "train_time", e["train_time"][i + 1])

\* len_errors = len(errors[1]['train_acc']), line 13.
LenErrors == Len(errors["train_acc"])

\* for idx in range(len_errors), lines 23-29.
RestructureStep ==
  /\ pc = "restructure"
  /\ idx < LenErrors
  /\ new_errors' = AppendRecord(new_errors, errors, idx)
  /\ idx' = idx + 1
  /\ UNCHANGED <<pc, errors, plain, todo, plotted>>
  /\ UNCHANGED <<error, calls, ctor, queues, runKw, epochs, epoch, frame,
                 resolved, log, files>>

\* return new_errors, line 30.
RestructureReturn ==
  /\ pc = "restructure"
  /\ idx = LenErrors
  /\ pc' = "restructured"
  /\ UNCHANGED plotVars
  /\ UNCHANGED <<error, calls, ctor, queues, runKw, epochs, epoch, frame,
                 resolved, log, files>>

\* The keys of a dict in iteration order, which is insertion order: the
\* architectures in the order of their first record.
RECURSIVE KeyOrder(_)
KeyOrder(a) ==
  IF a = <<>> THEN <<>>
  ELSE LET front == KeyOrder(SubSeq(a, 1, Len(a) - 1))
           last  == a[Len(a)]
       IN  IF \E i \in DOMAIN front : front[i] = last
           THEN front ELSE Append(front, last)

\* The restructured results reach the loop of plot_sh either as they are
\* (defaultdicts) or through sh_stats.json and json.load (plain dicts),
\* lines 40 and 51-53.
PlotStart(p) ==
  /\ pc = "restructured"
  /\ plain' = p
  /\ todo' = KeyOrder(errors["arch"])
  /\ pc' = "plot"
  /\ UNCHANGED <<errors, idx, new_errors, plotted>>
  /\ UNCHANGED <<error, calls, ctor, queues, runKw, epochs, epoch, frame,
                 resolved, log, files>>

\* The keys plot_sh reads, lines 54 and 55.
XKey == "fidelity"
YKey == "val_acc"

\* One iteration of the loop of plot_sh, lines 53-56. Reading a missing key
\* raises KeyError on a plain dict and yields a new empty list on a
\* defaultdict; plt.plot raises ValueError for series of different lengths.
PlotArch ==
  /\ pc = "plot"
  /\ todo # <<>>
  /\ LET a    == Head(todo)
         res  == new_errors[a]
         hasX == XKey \in DOMAIN res
         hasY == YKey \in DOMAIN res
         x    == IF hasX THEN res[XKey] ELSE <<>>
         y    == IF hasY THEN res[YKey] ELSE <<>>
     IN  /\ plotted' = [arch |-> a, hasX |-> hasX, hasY |-> hasY,
                        x |-> x, values |-> y]
         /\ IF plain /\ ~(hasX /\ hasY)
            THEN /\ pc' = "failed"
                 /\ error' = "KeyError"
                 /\ UNCHANGED <<todo, new_errors>>
            ELSE /\ new_errors' =
                      [new_errors EXCEPT ![a] =
                         [k \in DOMAIN res \cup {XKey, YKey} |->
                            IF k \in DOMAIN res THEN res[k] ELSE <<>>]]
                 /\ IF Len(x) # Len(y)
                    THEN /\ pc' = "failed"
                         /\ error' = "ValueError"
                         /\ UNCHANGED todo
                    ELSE /\ todo' = Tail(todo)
                         /\ UNCHANGED <<pc, error>>
  /\ UNCHANGED <<errors, idx, plain>>
  /\ UNCHANGED <<calls, ctor, queues, runKw, epochs, epoch, frame,
                 resolved, log, files>>

\* The loop of plot_sh is over, lines 57-59.
PlotDone ==
  /\ pc = "plot"
  /\ todo = <<>>
  /\ pc' = "plot_done"
  /\ UNCHANGED plotVars
  /\ UNCHANGED <<error, calls, ctor, queues, runKw, epochs, epoch, frame,
                 resolved, log, files>>

InitPlot ==
  /\ pc = "restructure"
  /\ EvalIdle
  /\ \E n \in 0..MaxLen :
       \E a \in [1..n -> Archs], r \in [1..n -> 0..(MaxVal - 1)] :
          errors = Columns(a, r)
  /\ idx = 0
  /\ new_errors = <<>>
  /\ plain = FALSE
  /\ todo = <<>>
  /\ plotted = NoPlot

NextPlot ==
  \/ RestructureStep
  \/ RestructureReturn
  \/ \E p \in BOOLEAN : PlotStart(p)
  \/ PlotArch
  \/ PlotDone

SpecPlot == InitPlot /\ [][NextPlot]_vars

\* ================================================================ claims

\* What one epoch of run is expected to put in the log.
EpochLog(e) ==
  <<  <<"train", "begin", e>>, <<"train", "end", e>>  >>
  \o (IF queues.valid # 0
      THEN <<  <<"valid", "begin", e>>, <<"valid", "end", e>>  >>
      ELSE <<>>)
  \o <<  <<"test", "begin", e>>, <<"test", "end", e>>, <<"save", "end", e>>  >>

RECURSIVE ExpectedLog(_)
ExpectedLog(n) == IF n <= 0 THEN <<>> ELSE ExpectedLog(n - 1) \o EpochLog(n - 1)

IsPrefix(s, t) == Len(s) <= Len(t) /\ SubSeq(t, 1, Len(s)) = s

InRun == pc \in {"loop", "train", "infer", "after_train", "after_valid",
                 "after_test", "done"} /\ frame.caller # "direct"

\* C1: in every epoch of Evaluator.run the phases come in the order train,
\* validation (if and only if the validation queue is not empty), test,
\* save; each pass ends before the next begins, no phase of the next epoch
\* begins before the save of this one, and the test pass and the save are
\* part of every epoch, with or without validation.
C1_PhaseOrder ==
  InRun =>
    /\ IsPrefix(log, ExpectedLog(epoch + 1))
    /\ pc \in {"loop", "done"} => log = ExpectedLog(epoch)
    /\ pc \in {"train", "infer"} =>
         log[Len(log)] = <<frame.queue, "begin", epoch>>
    /\ pc = "after_test" => log[Len(log)] = <<"test", "end", epoch>>

C1_Witness ==
  /\ pc = "done"
  /\ epochs = 2
  /\ queues.valid # 0
  /\ queues.train >= 1
  /\ Len(log) = 14

\* The number of training passes begun in the log.
TrainPasses == Cardinality({i \in DOMAIN log :
                             log[i][1] = "train" /\ log[i][2] = "begin"})
InferPasses == Cardinality({i \in DOMAIN log :
                             log[i][1] \in {"valid", "test"}})

\* What a call of run without 'epochs' has done when it returns.
RunExact ==
  /\ epoch = epochs
  /\ TrainPasses = epochs
  /\ Len(files) = epochs
  /\ \A i \in 1..Len(files) : files[i] = <<"one_shot_model_", i - 1, ".pt">>
  /\ epochs = 0 => log = <<>> /\ files = <<>> /\ InferPasses = 0

\* C2: run called without an 'epochs' keyword terminates after exactly
\* N = config.epochs epochs: N training passes, N saves, the checkpoints
\* named one_shot_model_0.pt .. one_shot_model_{N-1}.pt in increasing
\* order, and nothing trained, inferred or saved when N = 0.
C2_ExactEpochs ==
  /\ [](pc = "done" => RunExact)
  /\ [](Len(files) <= epochs /\ TrainPasses <= epochs)
  /\ (pc = "loop") ~> (pc = "done")

C2_Witness ==
  /\ pc = "done"
  /\ epochs = 2
  /\ files = <<  <<"one_shot_model_", 0, ".pt">>,
                 <<"one_shot_model_", 1, ".pt">>  >>

RECURSIVE Select(_, _, _)
\* The entries of col at the indices where arch is a, in index order.
Select(col, arch, a) ==
  IF col = <<>> THEN <<>>
  ELSE LET n    == Len(col)
           rest == Select(SubSeq(col, 1, n - 1), SubSeq(arch, 1, n - 1), a)
       IN  IF arch[n] = a THEN Append(rest, col[n]) ELSE rest

RECURSIVE SumLen(_, _)
SumLen(d, keys) ==
  IF keys = {} THEN 0
  ELSE LET k == CHOOSE x \in keys : TRUE
       IN  Len(d[k]["train_acc"]) + SumLen(d, keys \ {k})

\* C3: restructure_results regroups errors[1] by architecture: the keys of
\* the result are the distinct values of errors[1]['arch'], every list
\* result[a][metric] is the subsequence of errors[1][metric] at the indices
\* whose arch is a, in index order, the six lists of an architecture have
\* the same length, and the lengths add up to len(errors[1]['train_acc']).
C3_Regrouped ==
  pc = "restructured" =>
    /\ DOMAIN new_errors = {errors["arch"][i] : i \in DOMAIN errors["arch"]}
    /\ \A a \in DOMAIN new_errors :
         /\ DOMAIN new_errors[a] = {"train_acc", "valid_acc", "fidelity",
                                    "test_acc", "runtime", "train_time"}
         /\ \A m \in DOMAIN new_errors[a] :
              /\ new_errors[a][m] = Select(errors[m], errors["arch"], a)
              /\ Len(new_errors[a][m]) = Len(new_errors[a]["train_acc"])
    /\ SumLen(new_errors, DOMAIN new_errors) = Len(errors["train_acc"])

C3_Witness ==
  /\ pc = "restructured"
  /\ Len(errors["arch"]) = 3
  /\ errors["arch"][1] = errors["arch"][3]
  /\ errors["arch"][1] # errors["arch"][2]
  /\ errors["fidelity"][1] # errors["fidelity"][3]
  /\ Len(new_errors[errors["arch"][1]]["fidelity"]) = 2

\* C4: run ends in the 'No number of epochs specified' error only when no
\* number of epochs was specified; a caller that passes 'epochs' gets the
\* epoch loop, not the error. (config.epochs is always there once the
\* evaluator is built: line 77 reads it.)
C4_ErrorOnlyWithoutEpochs == error = "NoEpochs" => ~runKw

\* C5: train and infer resolve their configuration alike: the 'config'
\* keyword when it is passed, graph.config otherwise, and the 'No
\* configuration specified' error only when there is neither.
C5_SameResolution ==
  resolved.fn # None =>
    /\ resolved.kw => resolved.result = CfgKwargs
    /\ ~resolved.kw /\ resolved.graphCfg => resolved.result = CfgGraph
    /\ resolved.result = "NoConfig" => ~resolved.kw /\ ~resolved.graphCfg

\* C6: constructing an Evaluator uses one configuration for everything: the
\* 'config' keyword if given, else graph.config; with the keyword the
\* construction succeeds even if the graph has no config, and the data
\* transforms and the dataset root come from self.config.
C6_SingleConfig ==
  ctor.outcome # None =>
    /\ ctor.kw => ctor.outcome = "ok" /\ ctor.selfConfig = CfgKwargs
    /\ ~ctor.kw /\ ctor.graphCfg => ctor.selfConfig = CfgGraph
    /\ ctor.outcome = "ok" =>
         /\ ctor.transformCfg = ctor.selfConfig
         /\ ctor.rootCfg = ctor.selfConfig

\* C7: what restructure_results returns fits the loop of plot_sh: for every
\* architecture the x series (key 'fidelity') and the y series (key
\* 'val_acc') are recorded data of the same length, the number of records
\* of the architecture.
C7_PlotInputValid ==
  plotted.arch # None =>
    /\ plotted.hasX
    /\ plotted.hasY
    /\ Len(plotted.x) = Len(plotted.values)
    /\ Len(plotted.x) = Cardinality({i \in DOMAIN errors["arch"] :
                                       errors["arch"][i] = plotted.arch})

====
